---------------------------- MODULE Spec2Model ----------------------------
(***************************************************************************)
(* Branded QR generator (src/main.py): the orchestrator generate_qr, the   *)
(* raster placement _paste_logo_on_png and the vector placement            *)
(* _embed_logo_in_svg.                                                     *)
(*                                                                         *)
(* Three specifications share the definitions:                             *)
(*   Spec       generate_qr, one step per statement group of its body      *)
(*   SpecPaste  _paste_logo_on_png applied to bounded inputs               *)
(*   SpecEmbed  _embed_logo_in_svg applied to bounded SVG texts            *)
(*                                                                         *)
(* Conventions.  A float is modelled by an exact fraction <<num, den>>;    *)
(* logo_frac is such a pair.  A path is a record of its directory          *)
(* components, stem and extension.  An image object lives in a heap and is *)
(* referred to by its index; its pixels are its base picture plus the      *)
(* sequence of overlays pasted on it.  An SVG text is a sequence of        *)
(* tokens.  The external libraries (segno, PIL, cairosvg, os) are modelled *)
(* by what the calls made in main.py do.                                   *)
(***************************************************************************)
EXTENDS Integers, Sequences, FiniteSets, TLC

VARIABLES
    pc,        \* position inside the running function, "idle" between calls
    args,      \* arguments of the running call
    cairosvg,  \* TRUE iff the optional module imported (main.py:15-18)
    fs,        \* file system: existing directories and files
    heap,      \* PIL image objects, by reference
    img,       \* generate_qr's local img (a heap reference, 0 = unset)
    svg_txt,   \* generate_qr's local svg_txt
    q,         \* the segno symbol made by _make_qr
    ret,       \* outcome of the call: returned value or raised error
    log,       \* external calls made so far by the running call
    obs        \* what the last placement call was given and computed

vars == <<pc, args, cairosvg, fs, heap, img, svg_txt, q, ret, log, obs>>

--------------------------------------------------------------------------
(* Bounds *)

MaxBorder == 1
MaxScale == 2
MaxMargin == 2
MaxDen == 4
MaxQrSide == 6
MaxLogoSide == 3
MaxSvgLen == 4

--------------------------------------------------------------------------
(* Values *)

Max(a, b) == IF a >= b THEN a ELSE b

\* str.lower() on the extensions that occur
Lower(s) ==
    CASE s = ".PNG" -> ".png"
      [] s = ".SVG" -> ".svg"
      [] s = ".TXT" -> ".txt"
      [] OTHER -> s

\* Optional[str]: None, or a string naming a logo file
NoneLogo == [some |-> FALSE, stem |-> "", ext |-> ""]
EmptyLogo == [some |-> TRUE, stem |-> "", ext |-> ""]
LogoPath(stem, ext) == [some |-> TRUE, stem |-> stem, ext |-> ext]

\* `if logo_path:` -- None and "" are both falsy
Truthy(lp) == lp.some /\ ~(lp.stem = "" /\ lp.ext = "")

\* os.path.splitext(logo_path.lower())[1]
LogoExt(lp) == Lower(lp.ext)

\* The logo files on disk: native pixel size of each; a path not listed
\* here does not exist.
LogoStems == {"wide", "tall", "dot"}
LogoNative(stem) ==
    CASE stem = "wide" -> <<MaxLogoSide, 1>>
      [] stem = "tall" -> <<1, MaxLogoSide>>
      [] OTHER -> <<1, 1>>
LogoExists(lp) == lp.stem \in LogoStems

\* fixed working canvas of cairosvg.svg2png (output_width / output_height)
RasterSide == 1024

\* CONFIG["pad_radius"]
PadRadius == 18

Fracs == {<<n, d>> : n \in {1}, d \in 1..MaxDen} \cup {<<22, 100>>, <<3, 4>>}

\* int(W * logo_frac) for W >= 0, logo_frac > 0: truncation is the floor
IntMul(W, frac) == (W * frac[1]) \div frac[2]


--------------------------------------------------------------------------
(* PIL image objects *)

\* A freshly created RGBA image object showing `base`, nothing pasted on it
NewImage(size, base) ==
    [mode |-> "RGBA", size |-> size, base |-> base, overlays |-> <<>>]

\* Allocation: the new object gets the next reference
Alloc(hp, im) == Append(hp, im)
LastRef(hp) == Len(hp)

\* Image.paste(src, (x, y), mask): writes into the object `ref` itself
PasteInPlace(hp, ref, layer) ==
    [hp EXCEPT ![ref].overlays = Append(@, layer)]

\* One overlay: what was put where.  src = 0 is a shape drawn by ImageDraw.
Layer(src, at, size, radius) ==
    [src |-> src, at |-> at, size |-> size, radius |-> radius]

--------------------------------------------------------------------------
(* _paste_logo_on_png, main.py:28-76 *)

\* main.py:41-53: the error the load raises ("" when it succeeds)
LoadLogoError(lp, cairo) ==
    IF LogoExt(lp) = ".svg"
    THEN IF ~cairo THEN "RuntimeError: CairoSVG is not available"
         ELSE IF ~LogoExists(lp) THEN "FileNotFoundError: logo" ELSE ""
    ELSE IF ~LogoExists(lp) THEN "FileNotFoundError: logo" ELSE ""

\* main.py:50-53: pixel size of the loaded logo
LoadedLogoSize(lp) ==
    IF LogoExt(lp) = ".svg" THEN <<RasterSide, RasterSide>> ELSE LogoNative(lp.stem)

\* main.py:56
TargetWFloor(W, logo_frac) == IntMul(W, logo_frac)
TargetW(W, logo_frac) == Max(1, IntMul(W, logo_frac))

\* main.py:57-58: ratio = target_w / logo.width; int(logo.height * ratio)
TargetH(logo_w, logo_h, target_w) == Max(1, (logo_h * target_w) \div logo_w)

\* main.py:63-64, 70
PadSize(target_w, target_h, pad_margin_px) ==
    <<target_w + pad_margin_px * 2, target_h + pad_margin_px * 2>>

\* main.py:73-74 (Python's // and TLA+'s \div both round towards -infinity)
CenterNoHalf(W, H, w, h) == <<W - w, H - h>>
Center(W, H, w, h) == <<(W - w) \div 2, (H - h) \div 2>>

\* main.py:75-76: img.paste(logo, (x, y), logo); return img
PasteOnQrCopy(hp, ref, layer) ==
    [heap |-> PasteInPlace(Alloc(hp, hp[ref]), Len(hp) + 1, layer),
     ret |-> Len(hp) + 1]
PasteOnQr(hp, ref, layer) ==
    [heap |-> PasteInPlace(hp, ref, layer), ret |-> ref]

\* The whole function.  Result: the error raised ("" if none), the heap
\* after the call, the reference returned, and the geometry computed.
PasteLogoOnPng(hp, ref, lp, logo_frac, pad, pad_radius, pad_margin_px, cairo) ==
    LET W == hp[ref].size[1]
        H == hp[ref].size[2]
        err == LoadLogoError(lp, cairo)
    IN  IF err # ""
        THEN [err |-> err, heap |-> hp, ret |-> 0, g |-> [W |-> W, H |-> H]]
        ELSE
        LET lsz == LoadedLogoSize(lp)
            \* Image.open(...).convert("RGBA")
            hp1 == Alloc(hp, NewImage(lsz, "logo"))
            logo0 == LastRef(hp1)
            tw == TargetW(W, logo_frac)
            th == TargetH(lsz[1], lsz[2], tw)
            \* Image.resize returns a new object
            hp2 == Alloc(hp1, NewImage(<<tw, th>>, "logo"))
            logo1 == LastRef(hp2)
            psz == PadSize(tw, th, pad_margin_px)
            \* Image.new, rounded_rectangle, pad_img.paste(logo, ..., logo)
            hp3 == IF pad
                   THEN PasteInPlace(
                            PasteInPlace(
                                Alloc(hp2, NewImage(psz, "transparent")),
                                LastRef(hp2) + 1,
                                Layer(0, <<0, 0>>, psz, pad_radius)),
                            LastRef(hp2) + 1,
                            Layer(logo1, Center(psz[1], psz[2], tw, th),
                                  <<tw, th>>, 0))
                   ELSE hp2
            logo2 == IF pad THEN LastRef(hp3) ELSE logo1
            fsz == hp3[logo2].size
            xy == Center(W, H, fsz[1], fsz[2])
            r == PasteOnQr(hp3, ref, Layer(logo2, xy, fsz, 0))
        IN  [err |-> "", heap |-> r.heap, ret |-> r.ret,
             g |-> [W |-> W, H |-> H, loaded |-> logo0, loaded_size |-> lsz,
                    resized |-> <<tw, th>>, final |-> fsz, xy |-> xy]]

--------------------------------------------------------------------------
(* SVG text: a sequence of tokens *)

Markup(v) == [k |-> "markup", v |-> v]
CloseSvg == [k |-> "close", v |-> "</svg>"]

\* name="value".  cls tells what the characters of the value are:
\*   "num"   digits and dots forming a number            33
\*   "unit"  a number followed by word characters        33px
\*   "dots"  digits and dots that form no number         1.2.3
\*   "pct"   a number followed by a non-word character   100%
Attr(name, cls, n) == [k |-> "attr", name |-> name, cls |-> cls, n |-> n]

\* viewBox="...".  chars_ok: every character is a digit, dot, white space or
\* minus sign; items: the white-space separated pieces, each a number or not
\* (such as "-" or "1.2.3").
Num(n) == [num |-> TRUE, n |-> n]
NotNum == [num |-> FALSE, n |-> 0]
ViewBox(chars_ok, items) ==
    [k |-> "attr", name |-> "viewBox", chars_ok |-> chars_ok, items |-> items]

\* re.search(r'width="([\d\.]+)(\w*)"', svg_qr) and the same for height:
\* the pattern is not anchored at a word start, so stroke-width="2" matches
\* too.
LenMatch(svg_qr, name) ==
    \E i \in 1..Len(svg_qr) :
        /\ svg_qr[i].k = "attr"
        /\ svg_qr[i].name \in {name, "stroke-" \o name}
        /\ svg_qr[i].cls \in {"num", "unit", "dots"}

\* re.search(r'viewBox="([\d\.\s\-]+)"', svg_qr): index of the first match,
\* 0 when there is none
VbMatches(tok) == tok.k = "attr" /\ tok.name = "viewBox" /\ tok.chars_ok
VbMatch(svg_qr) ==
    IF \E i \in 1..Len(svg_qr) : VbMatches(svg_qr[i])
    THEN CHOOSE i \in 1..Len(svg_qr) :
            /\ VbMatches(svg_qr[i])
            /\ \A j \in 1..(i - 1) : ~VbMatches(svg_qr[j])
    ELSE 0

\* str.replace(old, new): every occurrence of the token is replaced
RECURSIVE ReplaceAll(_, _)
ReplaceAll(txt, inject) ==
    IF txt = <<>> THEN <<>>
    ELSE (IF Head(txt) = CloseSvg THEN <<inject, CloseSvg>> ELSE <<Head(txt)>>)
         \o ReplaceAll(Tail(txt), inject)

--------------------------------------------------------------------------
(* _embed_logo_in_svg, main.py:79-116 *)

\* main.py:82-92: the data URI of the logo
LogoDataUri(lp) ==
    IF LogoExt(lp) = ".svg"
    THEN [mime |-> "image/svg+xml", b64 |-> [of |-> "file bytes", stem |-> lp.stem]]
    ELSE [mime |-> "image/png", b64 |-> [of |-> "RGBA PNG", stem |-> lp.stem]]

\* main.py:101-105: the percentage placement; the floats are fractions
FallbackImage(uri, logo_frac) ==
    LET width_pct == IntMul(100, logo_frac)
    IN  [k |-> "image", units |-> "%", x |-> <<50, 1>>, y |-> <<50, 1>>,
         width |-> <<width_pct, 1>>, height |-> <<width_pct, 1>>,
         href |-> uri, translate |-> <<-width_pct, 2>>]

\* main.py:108-115: placement in user units from the viewBox
GeometricImage(uri, logo_frac, vb) ==
    LET n == logo_frac[1]
        d == logo_frac[2]
        vb_x == vb[1].n
        vb_y == vb[2].n
        vb_w == vb[3].n
        vb_h == vb[4].n
    IN  [k |-> "image", units |-> "",
         x |-> <<2 * d * vb_x + d * vb_w - vb_w * n, 2 * d>>,
         y |-> <<2 * d * vb_y + d * vb_h - vb_h * n, 2 * d>>,
         width |-> <<vb_w * n, d>>, height |-> <<vb_h * n, d>>,
         href |-> uri, translate |-> <<0, 1>>]

\* main.py:108: [float(x) for x in ...split()] unpacked into four names
VbParses(items) == Len(items) = 4 /\ \A i \in 1..Len(items) : items[i].num

\* main.py:99
UseFallback(svg_qr) ==
    ~(LenMatch(svg_qr, "width") /\ LenMatch(svg_qr, "height") /\ VbMatch(svg_qr) # 0)

\* The whole function.  Result: the error raised ("" if none) and the text
\* returned.
EmbedLogoInSvg(svg_qr, lp, logo_frac) ==
    IF ~LogoExists(lp)
    THEN [err |-> "FileNotFoundError: logo", out |-> <<>>]
    ELSE
    LET uri == LogoDataUri(lp)
    IN  IF UseFallback(svg_qr)
        THEN [err |-> "", out |-> ReplaceAll(svg_qr, FallbackImage(uri, logo_frac))]
        ELSE
        LET items == svg_qr[VbMatch(svg_qr)].items
        IN  IF ~VbParses(items)
            THEN [err |-> "ValueError: viewBox", out |-> <<>>]
            ELSE [err |-> "",
                  out |-> ReplaceAll(svg_qr, GeometricImage(uri, logo_frac, items))]

--------------------------------------------------------------------------
(* The collaborators of generate_qr *)

\* `ecc not in "lmqh"` is False exactly for the substrings of "lmqh"
SubstringsOfLmqh ==
    {"", "l", "m", "q", "h", "lm", "mq", "qh", "lmq", "mqh", "lmqh"}
EccCheckPasses(ecc) == ecc \in SubstringsOfLmqh

\* segno.make(data, error=ecc): the error it raises ("" when it succeeds).
\* segno accepts the four level letters in either case.
SegnoLevels == {"l", "m", "q", "h", "L", "M", "Q", "H"}
SegnoMakeError(data, ecc) ==
    IF ecc \notin SegnoLevels THEN "segno.ErrorLevelError"
    ELSE IF data.modules = 0 THEN "segno.DataOverflowError"
    ELSE ""

\* q.save(buf, kind="png", border=border, scale=scale): segno's own PNG
SegnoPng(sym, border, scale) ==
    LET side == (sym.modules + 2 * border) * scale
    IN  [fmt |-> "png", writer |-> "segno", mode |-> "1",
         size |-> <<side, side>>, base |-> sym, overlays |-> <<>>]

\* q.save(s, kind="svg", border=border): segno's own SVG text
SegnoSvg(sym, border) ==
    LET side == sym.modules + 2 * border
    IN  <<Markup("<svg"), Attr("width", "num", side), Attr("height", "num", side),
          [k |-> "path", sym |-> sym], CloseSvg>>

\* Image.open(buf).convert("RGBA")
OpenConvertL(png) ==
    [mode |-> "L", size |-> png.size, base |-> png.base,
     overlays |-> png.overlays]
OpenRGBA(png) ==
    [mode |-> "RGBA", size |-> png.size, base |-> png.base,
     overlays |-> png.overlays]

\* img.save(out_path): PIL's PNG of the image object
PilPng(im) ==
    [fmt |-> "png", writer |-> "PIL", mode |-> im.mode, size |-> im.size,
     base |-> im.base, overlays |-> im.overlays]

\* open(out_path, "w", encoding="utf-8").write(svg_txt)
Utf8File(txt) == [fmt |-> "svg", writer |-> "utf-8", text |-> txt]

\* os.path.dirname(out_path) and out_path.lower().endswith(suffix)
Dirname(path) == path.dir
EndsWith(path, suffix) == Lower(path.ext) = suffix

\* os.makedirs(d, exist_ok=True): the directory and its missing parents
Prefixes(d) == {SubSeq(d, 1, n) : n \in 1..Len(d)}
MakedirsError(d) == IF d = <<>> THEN "FileNotFoundError: ''" ELSE ""
Makedirs(f, d) == [f EXCEPT !.dirs = @ \cup Prefixes(d)]

\* writing a file creates it or replaces its content
WriteFile(f, path, content) ==
    [f EXCEPT !.files = {x \in @ : x.path # path}
                        \cup {[path |-> path, content |-> content]}]

FileAt(f, path) == {x \in f.files : x.path = path}

--------------------------------------------------------------------------
(* Inputs of generate_qr *)

Payloads ==
    {[text |-> "https://example.com", modules |-> 25],
     [text |-> "longer than any symbol holds", modules |-> 0]}
Eccs == {"l", "h", "H", "x", "", "lm"}
OutDirs == {<<>>, <<"output">>, <<"a", "b">>}
OutExts == {".png", ".PNG", ".svg", ".txt"}
OutPaths == {[dir |-> d, stem |-> "qr", ext |-> e] : d \in OutDirs, e \in OutExts}
Logos ==
    {NoneLogo, EmptyLogo, LogoPath("wide", ".png"), LogoPath("dot", ".svg"),
     LogoPath("dot", ".SVG"), LogoPath("gone", ".png")}

\* CONFIG["logo_frac"] and CONFIG["pad_margin_px"]
DefaultFrac == <<22, 100>>
PadMargin == 10

StaleFile == [path |-> [dir |-> <<"output">>, stem |-> "qr", ext |-> ".png"],
              content |-> [fmt |-> "old"]]
InitialFs ==
    {[dirs |-> {}, files |-> {}],
     [dirs |-> {<<"output">>}, files |-> {}],
     [dirs |-> {<<"output">>}, files |-> {StaleFile}]}

NoObs == [fn |-> "none"]
NoRet == [kind |-> "none"]
NoSym == [text |-> "", modules |-> 0]
Returned(v) == [kind |-> "returned", value |-> v]
Raised(e) == [kind |-> "raised", error |-> e]

--------------------------------------------------------------------------
(* generate_qr, main.py:119-163 *)

Init ==
    /\ pc = "idle"
    /\ args = [fn |-> "none"]
    /\ cairosvg \in BOOLEAN
    /\ fs \in InitialFs
    /\ heap = <<>>
    /\ img = 0
    /\ svg_txt = <<>>
    /\ q = NoSym
    /\ ret = NoRet
    /\ log = <<>>
    /\ obs = NoObs

\* a caller invokes generate_qr(data, out_path, ecc=..., ...)
Call ==
    /\ pc = "idle"
    /\ ret = NoRet
    /\ \E data \in Payloads, out_path \in OutPaths, ecc \in Eccs,
          border \in 0..MaxBorder, scale \in 1..MaxScale,
          logo_path \in Logos, pad_logo \in BOOLEAN :
          args' = [fn |-> "generate_qr", data |-> data, out_path |-> out_path,
                   ecc |-> ecc, border |-> border, scale |-> scale,
                   logo_path |-> logo_path, logo_frac |-> DefaultFrac,
                   pad_logo |-> pad_logo, pad_radius |-> PadRadius,
                   pad_margin_px |-> PadMargin]
    /\ pc' = "make_qr"
    /\ UNCHANGED <<cairosvg, fs, heap, img, svg_txt, q, ret, log, obs>>

Raise(e) ==
    /\ pc' = "raised"
    /\ ret' = Raised(e)

\* main.py:137 with _make_qr, main.py:21-25
MakeQr ==
    /\ pc = "make_qr"
    /\ IF ~EccCheckPasses(args.ecc)
       THEN /\ Raise("ValueError: ecc must be one of l,m,q,h")
            /\ UNCHANGED <<q, log>>
       ELSE /\ log' = Append(log, "segno.make")
            /\ IF SegnoMakeError(args.data, args.ecc) # ""
               THEN /\ Raise(SegnoMakeError(args.data, args.ecc))
                    /\ UNCHANGED q
               ELSE /\ q' = args.data
                    /\ pc' = "makedirs"
                    /\ UNCHANGED ret
    /\ UNCHANGED <<args, cairosvg, fs, heap, img, svg_txt, obs>>

\* main.py:138-139
MakeDirs ==
    /\ pc = "makedirs"
    /\ log' = Append(log, "os.makedirs")
    /\ IF MakedirsError(Dirname(args.out_path)) # ""
       THEN /\ Raise(MakedirsError(Dirname(args.out_path)))
            /\ UNCHANGED fs
       ELSE /\ fs' = Makedirs(fs, Dirname(args.out_path))
            /\ pc' = "dispatch"
            /\ UNCHANGED ret
    /\ UNCHANGED <<args, cairosvg, heap, img, svg_txt, q, obs>>

\* main.py:141-146: the PNG branch up to the RGBA image
RenderPng ==
    /\ pc = "dispatch"
    /\ EndsWith(args.out_path, ".png")
    /\ log' = Append(log, "q.save png")
    /\ heap' = Alloc(heap, OpenRGBA(SegnoPng(q, args.border, args.scale)))
    /\ img' = LastRef(heap')
    /\ pc' = IF Truthy(args.logo_path) THEN "paste" ELSE "save_png"
    /\ UNCHANGED <<args, cairosvg, fs, svg_txt, q, ret, obs>>

\* main.py:147-148
PasteLogo ==
    /\ pc = "paste"
    /\ LET r == PasteLogoOnPng(heap, img, args.logo_path, args.logo_frac,
                               args.pad_logo, args.pad_radius,
                               args.pad_margin_px, cairosvg)
       IN  /\ log' = Append(log, "load logo")
           /\ obs' = [fn |-> "paste", ref |-> img, before |-> heap[img],
                      pad |-> args.pad_logo, margin |-> args.pad_margin_px,
                      frac |-> args.logo_frac, err |-> r.err, ret |-> r.ret,
                      g |-> r.g]
           /\ IF r.err # ""
              THEN /\ Raise(r.err)
                   /\ UNCHANGED <<heap, img>>
              ELSE /\ heap' = r.heap
                   /\ img' = r.ret
                   /\ pc' = "save_png"
                   /\ UNCHANGED ret
    /\ UNCHANGED <<args, cairosvg, fs, svg_txt, q>>

\* main.py:149-150
SavePng ==
    /\ pc = "save_png"
    /\ log' = Append(log, "write")
    /\ fs' = WriteFile(fs, args.out_path, PilPng(heap[img]))
    /\ ret' = Returned(args.out_path)
    /\ pc' = "returned"
    /\ UNCHANGED <<args, cairosvg, heap, img, svg_txt, q, obs>>

\* main.py:152-156: the SVG branch up to the SVG text
RenderSvg ==
    /\ pc = "dispatch"
    /\ ~EndsWith(args.out_path, ".png")
    /\ EndsWith(args.out_path, ".svg")
    /\ log' = Append(log, "q.save svg")
    /\ svg_txt' = SegnoSvg(q, args.border)
    /\ pc' = IF Truthy(args.logo_path) THEN "embed" ELSE "write_svg"
    /\ UNCHANGED <<args, cairosvg, fs, heap, img, q, ret, obs>>

\* main.py:157-158
EmbedLogo ==
    /\ pc = "embed"
    /\ LET r == EmbedLogoInSvg(svg_txt, args.logo_path, args.logo_frac)
       IN  /\ log' = Append(log, "load logo")
           /\ obs' = [fn |-> "embed", svg_qr |-> svg_txt, frac |-> args.logo_frac,
                      err |-> r.err, out |-> r.out]
           /\ IF r.err # ""
              THEN /\ Raise(r.err)
                   /\ UNCHANGED svg_txt
              ELSE /\ svg_txt' = r.out
                   /\ pc' = "write_svg"
                   /\ UNCHANGED ret
    /\ UNCHANGED <<args, cairosvg, fs, heap, img, q>>

\* main.py:159-161
WriteSvg ==
    /\ pc = "write_svg"
    /\ log' = Append(log, "write")
    /\ fs' = WriteFile(fs, args.out_path, Utf8File(svg_txt))
    /\ ret' = Returned(args.out_path)
    /\ pc' = "returned"
    /\ UNCHANGED <<args, cairosvg, heap, img, svg_txt, q, obs>>

\* main.py:163
RaiseUnsupported ==
    /\ pc = "dispatch"
    /\ ~EndsWith(args.out_path, ".png")
    /\ ~EndsWith(args.out_path, ".svg")
    /\ Raise("ValueError: out_path must end with .png or .svg")
    /\ UNCHANGED <<args, cairosvg, fs, heap, img, svg_txt, q, log, obs>>

Next ==
    \/ Call
    \/ MakeQr
    \/ MakeDirs
    \/ RenderPng
    \/ PasteLogo
    \/ SavePng
    \/ RenderSvg
    \/ EmbedLogo
    \/ WriteSvg
    \/ RaiseUnsupported

Spec == Init /\ [][Next]_vars

--------------------------------------------------------------------------
(* _paste_logo_on_png on its own: any image size, logo and options *)

PasteLogos ==
    {LogoPath("wide", ".png"), LogoPath("tall", ".PNG"), LogoPath("dot", ".jpg"),
     LogoPath("dot", ".svg"), LogoPath("gone", ".png")}

InitFn ==
    /\ pc = "idle"
    /\ args = [fn |-> "none"]
    /\ cairosvg \in BOOLEAN
    /\ fs = [dirs |-> {}, files |-> {}]
    /\ heap = <<>>
    /\ img = 0
    /\ svg_txt = <<>>
    /\ q = NoSym
    /\ ret = NoRet
    /\ log = <<>>
    /\ obs = NoObs

\* a caller holds an RGBA image of W x H pixels and calls the function
CallPaste ==
    /\ pc = "idle"
    /\ \E W \in 1..MaxQrSide, H \in 1..MaxQrSide, lp \in PasteLogos,
          logo_frac \in Fracs, pad \in BOOLEAN, margin \in 0..MaxMargin :
          /\ heap' = <<NewImage(<<W, H>>, "qr")>>
          /\ args' = [fn |-> "_paste_logo_on_png", logo_path |-> lp,
                      logo_frac |-> logo_frac, pad_logo |-> pad,
                      pad_radius |-> PadRadius, pad_margin_px |-> margin]
    /\ img' = 1
    /\ pc' = "paste_fn"
    /\ UNCHANGED <<cairosvg, fs, svg_txt, q, ret, log, obs>>

\* main.py:28-76, the call runs to its return or its raise
RunPaste ==
    /\ pc = "paste_fn"
    /\ LET r == PasteLogoOnPng(heap, img, args.logo_path, args.logo_frac,
                               args.pad_logo, args.pad_radius,
                               args.pad_margin_px, cairosvg)
       IN  /\ obs' = [fn |-> "paste", ref |-> img, before |-> heap[img],
                      pad |-> args.pad_logo, margin |-> args.pad_margin_px,
                      frac |-> args.logo_frac, err |-> r.err, ret |-> r.ret,
                      g |-> r.g]
           /\ heap' = r.heap
           /\ ret' = IF r.err # "" THEN Raised(r.err) ELSE Returned(r.ret)
    /\ pc' = "done"
    /\ UNCHANGED <<args, cairosvg, fs, img, svg_txt, q, log>>

NextPaste ==
    \/ CallPaste
    \/ RunPaste

SpecPaste == InitFn /\ [][NextPaste]_vars

--------------------------------------------------------------------------
(* _embed_logo_in_svg on its own: any QR SVG text the encoder may hand over *)

SvgAlphabet ==
    {Markup("<svg"), [k |-> "path"], CloseSvg,
     Attr("width", "num", 10), Attr("height", "num", 10),
     Attr("width", "pct", 100), Attr("stroke-width", "num", 1),
     ViewBox(TRUE, <<Num(0), Num(0), Num(10), Num(10)>>),
     ViewBox(TRUE, <<Num(0), Num(0), Num(10)>>),
     ViewBox(TRUE, <<Num(0), Num(0), NotNum, Num(10)>>),
     ViewBox(FALSE, <<Num(0), Num(0), Num(10), Num(10)>>)}

\* A text opens its root element, which stays open up to the last token;
\* elements may nest, and the root may be left unclosed (malformed upstream
\* output).
Opens(txt, n) == Cardinality({i \in 1..n : txt[i] = Markup("<svg")})
Shuts(txt, n) == Cardinality({i \in 1..n : txt[i] = CloseSvg})
Nested(txt) == \A n \in 1..(Len(txt) - 1) : Shuts(txt, n) < Opens(txt, n)
SvgTexts ==
    {txt \in {<<Markup("<svg")>> \o t :
                 t \in UNION {[1..n -> SvgAlphabet] : n \in 0..MaxSvgLen}} :
        Nested(txt)}

EmbedLogos == {LogoPath("dot", ".png"), LogoPath("dot", ".svg"), LogoPath("gone", ".png")}

CallEmbed ==
    /\ pc = "idle"
    /\ \E svg_qr \in SvgTexts, lp \in EmbedLogos, logo_frac \in {DefaultFrac, <<1, 2>>} :
          /\ svg_txt' = svg_qr
          /\ args' = [fn |-> "_embed_logo_in_svg", logo_path |-> lp,
                      logo_frac |-> logo_frac]
    /\ pc' = "embed_fn"
    /\ UNCHANGED <<cairosvg, fs, heap, img, q, ret, log, obs>>

\* main.py:79-116, the call runs to its return or its raise
RunEmbed ==
    /\ pc = "embed_fn"
    /\ LET r == EmbedLogoInSvg(svg_txt, args.logo_path, args.logo_frac)
       IN  /\ obs' = [fn |-> "embed", svg_qr |-> svg_txt, frac |-> args.logo_frac,
                      err |-> r.err, out |-> r.out]
           /\ ret' = IF r.err # "" THEN Raised(r.err) ELSE Returned(r.out)
    /\ pc' = "done"
    /\ UNCHANGED <<args, cairosvg, fs, heap, img, svg_txt, q, log>>

NextEmbed ==
    \/ CallEmbed
    \/ RunEmbed

SpecEmbed == InitFn /\ [][NextEmbed]_vars

--------------------------------------------------------------------------
(* Properties of generate_qr (checked under Spec) *)

CallOver == pc \in {"returned", "raised"}
FourLevels == {"l", "m", "q", "h"}
\* the call's payload and level are ones the encoder takes
Encodable == args.ecc \in FourLevels /\ args.data.modules > 0
Written == {i \in 1..Len(log) : log[i] = "write"}
Happened(what) == \E i \in 1..Len(log) : log[i] = what

\* C1: a call with a PNG output path, an .svg logo and no cairosvg ends in
\* the missing-capability error, and no output file has been written.
C1_MissingCapabilityReported ==
    (/\ CallOver
     /\ Encodable
     /\ EndsWith(args.out_path, ".png")
     /\ Truthy(args.logo_path)
     /\ LogoExt(args.logo_path) = ".svg"
     /\ ~cairosvg)
    => /\ ret = Raised("RuntimeError: CairoSVG is not available")
       /\ Written = {}

\* C2: a call whose output path ends in neither .png nor .svg is rejected
\* with the unsupported-output-format error, before the symbol is rendered
\* or a logo loaded, and writes no file.
C2_UnsupportedFormatRejected ==
    (/\ CallOver
     /\ Encodable
     /\ ~EndsWith(args.out_path, ".png")
     /\ ~EndsWith(args.out_path, ".svg"))
    => /\ ret = Raised("ValueError: out_path must end with .png or .svg")
       /\ ~Happened("q.save png")
       /\ ~Happened("q.save svg")
       /\ ~Happened("load logo")
       /\ Written = {}

\* The encoder's own direct render to a file of the same kind
DirectRender ==
    IF EndsWith(args.out_path, ".png")
    THEN SegnoPng(q, args.border, args.scale)
    ELSE Utf8File(SegnoSvg(q, args.border))

\* C3 as claimed: without a logo the file written, PNG or SVG, is
\* byte-identical to the encoder's direct render.
C3_ByteIdenticalRender ==
    (pc = "returned" /\ ~Truthy(args.logo_path))
    => FileAt(fs, args.out_path)
         = {[path |-> args.out_path, content |-> DirectRender]}

\* C3 as amended: without a logo an SVG file holds exactly the encoder's SVG
\* text; a PNG file is PIL's encoding of the RGBA conversion of the
\* encoder's render: same size, same picture, nothing pasted, but written
\* by PIL in mode RGBA and so not the encoder's bytes.
C3_NoLogoArtifact ==
    (pc = "returned" /\ ~Truthy(args.logo_path))
    => \E f \in fs.files :
        /\ f.path = args.out_path
        /\ \A g \in fs.files : g.path = args.out_path => g = f
        /\ IF EndsWith(args.out_path, ".png")
           THEN /\ f.content.fmt = "png"
                /\ f.content.writer = "PIL"
                /\ f.content.mode = "RGBA"
                /\ f.content.size = SegnoPng(q, args.border, args.scale).size
                /\ f.content.base = SegnoPng(q, args.border, args.scale).base
                /\ f.content.overlays = <<>>
                /\ f.content # SegnoPng(q, args.border, args.scale)
           ELSE f.content = DirectRender

C3_Witness ==
    /\ pc = "returned"
    /\ args.logo_path = NoneLogo
    /\ EndsWith(args.out_path, ".png")
    /\ \E f \in fs.files : f.path = args.out_path /\ f.content.writer = "PIL"

\* C9: an error-correction level that is not one of l, m, q, h is rejected
\* by _make_qr's own error before the encoder is invoked, before the output
\* directory is created and with nothing written.
C9_BadLevelRejectedFirst ==
    (CallOver /\ args.ecc \notin FourLevels)
    => /\ ret = Raised("ValueError: ecc must be one of l,m,q,h")
       /\ log = <<>>

\* the logo, if any, loads
LogoLoads ==
    \/ ~Truthy(args.logo_path)
    \/ /\ LogoExists(args.logo_path)
       /\ EndsWith(args.out_path, ".png") => LoadLogoError(args.logo_path, cairosvg) = ""

\* C10: a call with valid payload and options and an output path ending in
\* .png or .svg, with or without a directory part, whose rendering succeeds
\* has made sure the directory exists, written exactly one file, at the
\* output path, and returned that path.
C10_WritesOneFileReturnsPath ==
    (/\ CallOver
     /\ Encodable
     /\ EndsWith(args.out_path, ".png") \/ EndsWith(args.out_path, ".svg")
     /\ LogoLoads)
    => /\ ret = Returned(args.out_path)
       /\ Dirname(args.out_path) # <<>> => Dirname(args.out_path) \in fs.dirs
       /\ Cardinality(Written) = 1
       /\ FileAt(fs, args.out_path) # {}

--------------------------------------------------------------------------
(* Properties of _paste_logo_on_png (checked under SpecPaste) *)

Pasted == obs.fn = "paste" /\ obs.err = ""

\* C4 as claimed: the logo is resized to a width of exactly
\* floor(W * logo_frac), also where W * logo_frac < 1.
C4_WidthIsFloor ==
    Pasted => obs.g.resized[1] = (obs.g.W * obs.frac[1]) \div obs.frac[2]

\* C4 as amended: the logo is resized to a width of max(1, floor(W *
\* logo_frac)): the floor where W * logo_frac >= 1, and 1 (not 0) where
\* W * logo_frac < 1.
C4_WidthIsClampedFloor ==
    Pasted =>
        /\ obs.g.W * obs.frac[1] >= obs.frac[2]
             => obs.g.resized[1] = (obs.g.W * obs.frac[1]) \div obs.frac[2]
        /\ obs.g.W * obs.frac[1] < obs.frac[2] => obs.g.resized[1] = 1
        /\ \E r \in 1..Len(heap) :
             heap[r].base = "logo" /\ heap[r].size = obs.g.resized

C4_Witness ==
    /\ Pasted
    /\ obs.g.W * obs.frac[1] < obs.frac[2]
    /\ obs.g.resized[1] = 1

\* the overlay the call put on the QR image
TopLayer == heap[obs.ret].overlays[Len(heap[obs.ret].overlays)]

\* C5: the logo is pasted with its top-left corner at ((W - w) // 2,
\* (H - h) // 2), where (w, h) is the resized size, plus 2 * pad_margin_px
\* on each axis when padding is enabled.
C5_PasteCentered ==
    Pasted =>
        LET w == obs.g.resized[1] + (IF obs.pad THEN 2 * obs.margin ELSE 0)
            h == obs.g.resized[2] + (IF obs.pad THEN 2 * obs.margin ELSE 0)
        IN  /\ heap[obs.ret].overlays # <<>>
            /\ TopLayer.size = <<w, h>>
            /\ heap[TopLayer.src].size = <<w, h>>
            /\ TopLayer.at = <<(obs.g.W - w) \div 2, (obs.g.H - h) \div 2>>

C5_Witness ==
    /\ Pasted
    /\ obs.pad
    /\ obs.margin > 0
    /\ TopLayer.size[1] > obs.g.W
    /\ TopLayer.at[1] < 0
    /\ TopLayer.at[2] > 0

\* C8 as claimed: after the call the QR image object passed in holds the
\* pixels it held before, and the result is another, new image object.
C8_InputNotMutated ==
    Pasted => heap[obs.ref] = obs.before /\ obs.ret # obs.ref

\* C8 as amended: the call pastes the logo onto the QR image object passed
\* in and returns that same object: its size is unchanged and its pixels
\* change by the one centred overlay only.  The loaded logo is not mutated:
\* resize and padding produce new objects.
C8_PastesInPlace ==
    Pasted =>
        /\ obs.ret = obs.ref
        /\ heap[obs.ref].size = obs.before.size
        /\ heap[obs.ref].base = obs.before.base
        /\ Len(heap[obs.ref].overlays) = Len(obs.before.overlays) + 1
        /\ \A i \in 1..Len(obs.before.overlays) :
             heap[obs.ref].overlays[i] = obs.before.overlays[i]
        /\ heap[obs.g.loaded] = NewImage(obs.g.loaded_size, "logo")
        /\ TopLayer.src \notin {obs.ref, obs.g.loaded}

C8_Witness ==
    /\ Pasted
    /\ obs.ret = obs.ref
    /\ heap[obs.ref] # obs.before

--------------------------------------------------------------------------
(* Properties of _embed_logo_in_svg (checked under SpecEmbed) *)

Embedded == obs.fn = "embed"
Closes(txt) == {i \in 1..Len(txt) : txt[i] = CloseSvg}

\* C6: the text returned is the text given with exactly one <image> element
\* inserted immediately before the closing root tag, every token of the
\* original kept in its order.
C6_ExactlyOneImage ==
    (Embedded /\ obs.err = "" /\ Closes(obs.svg_qr) # {})
    => LET txt == obs.svg_qr
           root == CHOOSE i \in Closes(txt) : \A j \in Closes(txt) : j <= i
       IN  /\ Len(obs.out) = Len(txt) + 1
           /\ SubSeq(obs.out, 1, root - 1) = SubSeq(txt, 1, root - 1)
           /\ obs.out[root].k = "image"
           /\ SubSeq(obs.out, root + 1, Len(obs.out)) = SubSeq(txt, root, Len(txt))

\* The three attributes are there and parse into numbers
AttrsParse(txt) ==
    /\ LenMatch(txt, "width")
    /\ LenMatch(txt, "height")
    /\ VbMatch(txt) # 0
    /\ VbParses(txt[VbMatch(txt)].items)

\* C7: whenever width, height or viewBox is missing or does not parse into
\* numbers, the call returns the percentage placement and raises nothing.
C7_FallbackNeverRaises ==
    (Embedded /\ LogoExists(args.logo_path) /\ ~AttrsParse(obs.svg_qr))
    => /\ obs.err = ""
       /\ \A i \in 1..Len(obs.out) :
            obs.out[i].k = "image" => obs.out[i].units = "%"

==========================================================================
